---- MODULE Spec2Model ----
(***************************************************************************)
(* Model of the digital-twin MCP server: the JSON-RPC route                *)
(* (app/api/mcp/route.ts), the vector retriever (vector.ts) and the RAG    *)
(* orchestrator (actions.ts).  One request is followed from the POST       *)
(* handler through every await to its HTTP response.  Text is a sequence   *)
(* of tokens (TLA+ strings), so that concatenation, joining and trimming   *)
(* really compute something; JavaScript values are tagged records.         *)
(***************************************************************************)
EXTENDS Integers, Sequences, FiniteSets, TLC

(***************************************************************************)
(* Bounds of the model.                                                    *)
(***************************************************************************)
\* the vector service answers a query with at most this many results
MaxResults == 2
\* the chat page is followed for at most this many submitted questions
MaxTurns == 2

(***************************************************************************)
(* Program constants.                                                      *)
(***************************************************************************)
TopK == 3
CodeInvalidParams == -32602
CodeMethodNotFound == -32601
CodeInternalError == -32603
CodeParseError == -32700
StatusOk == 200
StatusBadRequest == 400

(***************************************************************************)
(* JavaScript values: undefined, null, strings (token sequences), numbers. *)
(***************************************************************************)
Undefined == [t |-> "undefined", s |-> <<>>, n |-> 0]
Null == [t |-> "null", s |-> <<>>, n |-> 0]
Str(s) == [t |-> "string", s |-> s, n |-> 0]
Num(n) == [t |-> "number", s |-> <<>>, n |-> n]

\* ToBoolean, as applied by !x, x || y and Array.prototype.filter
Truthy(v) ==
  CASE v.t = "string" -> v.s # <<>>
    [] v.t = "number" -> v.n # 0
    [] OTHER -> FALSE

\* the text a template literal `${v}` inserts for v
TemplateText(v) ==
  CASE v.t = "string" -> v.s
    [] v.t = "number" -> <<ToString(v.n)>>
    [] v.t = "null" -> <<"null">>
    [] OTHER -> <<"undefined">>

\* a || fallback
OrElse(v, fallback) == IF Truthy(v) THEN v ELSE fallback

(***************************************************************************)
(* Thrown values and the error wrapping of the catch blocks.               *)
(***************************************************************************)
NewError(msg) == [isError |-> TRUE, message |-> msg]
\* a thrown value that is not an Error instance
ThrownValue == [isError |-> FALSE, message |-> <<>>]

\* error instanceof Error ? error.message : fallback
ErrorMessageOr(error, fallback) ==
  IF error.isError THEN error.message ELSE <<fallback>>

QueryVectorsCatch(error) ==
  NewError(<<"Failed to query vectors: ">> \o ErrorMessageOr(error, "Unknown error"))
GetVectorInfoCatch(error) ==
  NewError(<<"Failed to get vector info: ">> \o ErrorMessageOr(error, "Unknown error"))
GenerateResponseCatch(error) ==
  NewError(<<"Failed to generate response: ">> \o ErrorMessageOr(error, "Unknown error"))
RagQueryCatch(error) ==
  NewError(<<"RAG query failed: ">> \o ErrorMessageOr(error, "Unknown error"))

VectorCredentialsError == NewError(<<"Upstash Vector credentials not configured">>)
GroqKeyError == NewError(<<"GROQ_API_KEY not configured">>)

(***************************************************************************)
(* Inputs: request bodies.                                                 *)
(***************************************************************************)
AskDigitalTwin == Str(<<"ask_digital_twin">>)
GetProfileInfo == Str(<<"get_profile_info">>)
MethodInitialize == Str(<<"initialize">>)
MethodToolsList == Str(<<"tools/list">>)
MethodToolsCall == Str(<<"tools/call">>)

Ids == {Undefined, Null, Num(1), Str(<<"a">>)}
Versions == {Undefined, Str(<<"2.0">>)}
Methods == {Undefined, MethodInitialize, MethodToolsList, MethodToolsCall,
            Str(<<"ping">>)}
ToolNames == {Undefined, AskDigitalTwin, GetProfileInfo, Str(<<"delete_all">>)}
Questions == {Undefined, Str(<<>>), Str(<<"What are your skills?">>), Num(0), Num(42)}

NoArguments == [t |-> "undefined", question |-> Undefined]
ArgumentsValues ==
  {NoArguments} \cup {[t |-> "object", question |-> q] : q \in Questions}
NoParams == [t |-> "undefined", name |-> Undefined, arguments |-> NoArguments]
ParamsValues ==
  {NoParams} \cup
  {[t |-> "object", name |-> nm, arguments |-> a] :
     nm \in ToolNames, a \in ArgumentsValues}

\* json: "invalid" (not JSON), "null", "primitive" (a number, string, boolean
\* or array: no id, method or params property), "object"
NonObjectBody(kind) ==
  [json |-> kind, jsonrpc |-> Undefined, id |-> Undefined, method |-> Undefined,
   params |-> NoParams]
Bodies ==
  {NonObjectBody(k) : k \in {"invalid", "null", "primitive"}} \cup
  {[json |-> "object", jsonrpc |-> v, id |-> i, method |-> m, params |-> p] :
     v \in Versions, i \in Ids, m \in Methods, p \in ParamsValues}
NoBody == NonObjectBody("none")

(***************************************************************************)
(* Inputs: what the external services answer.                              *)
(***************************************************************************)
Causes == {NewError(<<"fetch failed">>), ThrownValue}

Titles == {Undefined, Str(<<>>), Str(<<"Skills">>)}
Contents == {Undefined, Str(<<>>), Str(<<"Go, TypeScript">>)}
Scores == {91, 50}
NoMetadata == [t |-> "undefined", title |-> Undefined, content |-> Undefined]
MetadataValues ==
  {NoMetadata} \cup
  {[t |-> "object", title |-> ti, content |-> c] : ti \in Titles, c \in Contents}
ServiceResults == [score : Scores, metadata : MetadataValues]

RECURSIVE SeqsUpTo(_, _)
SeqsUpTo(S, n) ==
  IF n = 0 THEN {<<>>}
  ELSE LET shorter == SeqsUpTo(S, n - 1)
       IN shorter \cup {Append(q, x) : q \in {r \in shorter : Len(r) = n - 1}, x \in S}

Min(a, b) == IF a < b THEN a ELSE b
ServiceAnswers == SeqsUpTo(ServiceResults, Min(MaxResults, TopK))

\* choices[0]?.message?.content of a completion
CompletionContents ==
  {Undefined, Str(<<>>), Str(<<" ">>), Str(<<"I know Go.">>),
   Str(<<" ", "I know Go.", "\n">>)}

InfoValues == [vectorCount : {Undefined, Num(0), Num(12)},
               dimension : {Undefined, Num(1024)}]

Environments == [vector : BOOLEAN, groq : BOOLEAN]

(***************************************************************************)
(* vector.ts: getRelevantContext.                                          *)
(***************************************************************************)
\* .filter((result) => result.metadata?.content)
\* a filter that looks at the metadata only, not at its content
HasMetadataOnly(result) == result.metadata.t = "object"

HasContent(result) == Truthy(result.metadata.content)

\* a map that hands the service's title through, absent or empty as it may be
ToMatchRawTitle(result) ==
  [title |-> result.metadata.title,
   content |-> OrElse(result.metadata.content, Str(<<>>)),
   score |-> result.score]

\* .map((result) => ({ title: ... || "Information", content: ... || "", score }))
ToMatch(result) ==
  [title |-> OrElse(result.metadata.title, Str(<<"Information">>)),
   content |-> OrElse(result.metadata.content, Str(<<>>)),
   score |-> result.score]

GetRelevantContext(queryResults) ==
  LET kept == SelectSeq(queryResults, HasContent)
  IN [i \in 1..Len(kept) |-> ToMatch(kept[i])]

(***************************************************************************)
(* actions.ts: ragQuery and generateResponse.                              *)
(***************************************************************************)
NoInformationAnswer == Str(<<"I don't have specific information about that topic.">>)
NoResponseGenerated == Str(<<"No response generated">>)

\* the check for an empty retrieval left out
NoSourcesNeverTaken(srcs) == FALSE
\* sources.length === 0
NoSources(srcs) == Len(srcs) = 0

\* `${source.title}: ${source.content}`
ContextEntry(source) ==
  TemplateText(source.title) \o <<": ">> \o TemplateText(source.content)

\* Array.prototype.join
RECURSIVE Join(_, _)
Join(texts, separator) ==
  IF texts = <<>> THEN <<>>
  ELSE IF Len(texts) = 1 THEN Head(texts)
       ELSE Head(texts) \o separator \o Join(Tail(texts), separator)

\* the entries joined last match first
BuildContextReversed(srcs) ==
  Join([i \in 1..Len(srcs) |-> ContextEntry(srcs[Len(srcs) + 1 - i])], <<"\n\n">>)
BuildContext(srcs) ==
  Join([i \in 1..Len(srcs) |-> ContextEntry(srcs[i])], <<"\n\n">>)

PromptHeader ==
  <<"Based on the following information about yourself, answer the question.\n",
    "Speak in first person as if you are describing your own background.\n",
    "\n", "Your Information:\n">>
PromptQuestionLabel == <<"\n\nQuestion: ">>
PromptFooter == <<"\n\nProvide a helpful, professional response:">>

BuildPrompt(context, question) ==
  PromptHeader \o context \o PromptQuestionLabel \o TemplateText(question)
    \o PromptFooter

\* String.prototype.trim
IsWhitespace(token) == token \in {" ", "\n", "\t"}
RECURSIVE TrimStart(_)
TrimStart(text) ==
  IF text # <<>> /\ IsWhitespace(Head(text)) THEN TrimStart(Tail(text)) ELSE text
RECURSIVE TrimEnd(_)
TrimEnd(text) ==
  IF text # <<>> /\ IsWhitespace(text[Len(text)])
  THEN TrimEnd(SubSeq(text, 1, Len(text) - 1))
  ELSE text
Trim(text) == TrimEnd(TrimStart(text))

\* the trimmed content without the fallback to the sentinel
CompletionTextNoFallback(content) ==
  IF content.t = "string" THEN Str(Trim(content.s)) ELSE Undefined

\* completion.choices[0]?.message?.content?.trim() || "No response generated"
CompletionText(content) ==
  OrElse(IF content.t = "string" THEN Str(Trim(content.s)) ELSE Undefined,
         NoResponseGenerated)

NoRagResponse == [t |-> "undefined", answer |-> Undefined, sources |-> <<>>]
RagResponse(answer, srcs) == [t |-> "object", answer |-> answer, sources |-> srcs]

(***************************************************************************)
(* vector.ts: getVectorInfo.                                               *)
(***************************************************************************)
VectorInfo(info) ==
  [vectorCount |-> OrElse(info.vectorCount, Num(0)),
   dimension |-> OrElse(info.dimension, Num(0))]

(***************************************************************************)
(* route.ts: the responses of handleMCPRequest and POST.                   *)
(***************************************************************************)
TOOLS == <<[name |-> "ask_digital_twin", required |-> <<"question">>],
           [name |-> "get_profile_info", required |-> <<>>]>>

NoSourcesBlock == [t |-> "undefined", sources |-> <<>>]
NoResult ==
  [t |-> "undefined", kind |-> "", tools |-> <<>>, content |-> <<>>,
   metadata |-> NoSourcesBlock]
NoRpcError == [t |-> "undefined", code |-> 0, message |-> <<>>]

RpcResult(id, result) ==
  [jsonrpc |-> "2.0", id |-> id, result |-> result, error |-> NoRpcError]
RpcError(id, code, message) ==
  [jsonrpc |-> "2.0", id |-> id, result |-> NoResult,
   error |-> [t |-> "object", code |-> code, message |-> message]]
NoResponse ==
  [jsonrpc |-> "", id |-> Undefined, result |-> NoResult, error |-> NoRpcError]

InitializeResult ==
  [t |-> "object", kind |-> "initialize", tools |-> <<>>, content |-> <<>>,
   metadata |-> NoSourcesBlock]
ToolsListResult(tools) ==
  [t |-> "object", kind |-> "tools/list", tools |-> tools, content |-> <<>>,
   metadata |-> NoSourcesBlock]

TextBlock(text) == [type |-> "text", text |-> text]

\* every entry given the score of the best match
SourcesMetadataTopScore(srcs) ==
  [i \in 1..Len(srcs) |-> [title |-> srcs[i].title, relevance |-> srcs[1].score]]
\* response.sources.map((s) => ({ title: s.title, relevance: s.score }))
SourcesMetadata(srcs) ==
  [i \in 1..Len(srcs) |-> [title |-> srcs[i].title, relevance |-> srcs[i].score]]

AskResult(rag) ==
  [t |-> "object", kind |-> "content", tools |-> <<>>,
   content |-> <<TextBlock(rag.answer)>>,
   metadata |-> [t |-> "object", sources |-> SourcesMetadata(rag.sources)]]

ProfileInfoResult(info) ==
  [t |-> "object", kind |-> "content", tools |-> <<>>,
   content |-> <<TextBlock(Str(<<"Digital Twin Profile Status:\n- Vector Count: ">>
                   \o TemplateText(info.vectorCount) \o <<"\n- Dimension: ">>
                   \o TemplateText(info.dimension)))>>,
   metadata |-> NoSourcesBlock]

MissingQuestionError(id) ==
  RpcError(id, CodeInvalidParams, <<"Missing required parameter: question">>)
\* an unknown tool reported as invalid parameters
UnknownToolErrorInvalidParams(id, toolName) ==
  RpcError(id, CodeInvalidParams, <<"Unknown tool: ">> \o TemplateText(toolName))
UnknownToolError(id, toolName) ==
  RpcError(id, CodeMethodNotFound, <<"Unknown tool: ">> \o TemplateText(toolName))
MethodNotFoundError(id, method) ==
  RpcError(id, CodeMethodNotFound, <<"Method not found: ">> \o TemplateText(method))
\* the catch block of handleMCPRequest reporting a fixed message
InternalErrorFixedMessage(id, error) ==
  RpcError(id, CodeInternalError, <<"Internal error">>)
\* the catch block of handleMCPRequest written like the one of POST: id null
InternalErrorNullId(id, error) ==
  RpcError(Null, CodeInternalError, ErrorMessageOr(error, "Internal error"))
\* the catch block of handleMCPRequest
InternalError(id, error) ==
  RpcError(id, CodeInternalError, ErrorMessageOr(error, "Internal error"))
\* the catch block of POST answering without an id
ParseErrorResponseNoId == RpcError(Undefined, CodeParseError, <<"Parse error">>)
\* the catch block of POST
ParseErrorResponse == RpcError(Null, CodeParseError, <<"Parse error">>)

(***************************************************************************)
(* State.  One request at a time is followed through the server.           *)
(***************************************************************************)
VARIABLES
  env,       \* process.env: which credentials are configured
  pc,        \* where the request is: Idle, Received, JsonRead, AwaitQuery,
             \* AwaitCompletion, AwaitInfo, Responded, Rejected
  body,      \* the request body POST received
  results,   \* what index.query resolved with
  sources,   \* ragQuery's sources
  prompt,    \* ragQuery's prompt
  rag,       \* the RAGResponse ragQuery returned
  calls,     \* outbound calls of this request and their outcomes, in order
  caught,    \* the error caught by handleMCPRequest's catch block, if any
  escaped,   \* an exception left handleMCPRequest
  response,  \* the JSON body of the HTTP response
  status,    \* the HTTP status of the response
  trace,     \* the lifecycle states the request went through: Received,
             \* Parsed (the envelope was read and destructured), Dispatched,
             \* Responded, Rejected
  completion,\* what chat.completions.create resolved with (its content)
  catalog,   \* the module-level TOOLS array, shared by all requests
  peer,      \* a tools/list request served while the request above is in flight
  messages,  \* chat page: useState messages
  input,     \* chat page: useState input
  isLoading, \* chat page: useState isLoading
  pending,   \* chat page: the chatWithDigitalTwin calls that have not settled
  rendered   \* chat page: the input and isLoading of the last render, which
             \* the handlers and the disabled attributes read

\* the state of the chat page
chat == <<messages, input, isLoading, pending, rendered>>
\* what the steps of the followed request never touch
others == <<catalog, peer, chat>>

vars == <<env, pc, body, results, sources, prompt, rag, calls, caught, escaped,
          response, status, trace, completion, catalog, peer, messages, input,
          isLoading, pending, rendered>>

Terminal == {"Responded", "Rejected"}

\* the concurrent tools/list request: not received yet
NoPeer == [pc |-> "Idle", id |-> Undefined, response |-> NoResponse, status |-> 0]

Init ==
  /\ env \in Environments
  /\ pc = "Idle"
  /\ body = NoBody
  /\ results = <<>>
  /\ sources = <<>>
  /\ prompt = <<>>
  /\ rag = NoRagResponse
  /\ calls = <<>>
  /\ caught = <<>>
  /\ escaped = FALSE
  /\ response = NoResponse
  /\ status = 0
  /\ trace = <<>>
  /\ completion = <<>>
  /\ catalog = TOOLS
  /\ peer = NoPeer
  /\ messages = <<>>
  /\ input = <<>>
  /\ isLoading = FALSE
  /\ pending = <<>>
  /\ rendered = [input |-> <<>>, isLoading |-> FALSE]

(***************************************************************************)
(* Building blocks of the actions.                                         *)
(***************************************************************************)
\* return NextResponse.json(response)
Respond(rpc) ==
  /\ response' = rpc
  /\ status' = StatusOk
  /\ pc' = "Responded"

\* the catch block of POST
RejectParse ==
  /\ response' = ParseErrorResponse
  /\ status' = StatusBadRequest
  /\ pc' = "Rejected"

\* an error thrown inside the try block of handleMCPRequest
HandlerCatch(error) ==
  /\ caught' = <<error>>
  /\ Respond(InternalError(body.id, error))

\* the outbound call is issued
IssueCall(service) == calls' = Append(calls, service)
\* the outbound call resolved or rejected
CallOutcome(outcome) == calls' = Append(calls, outcome)

(***************************************************************************)
(* POST: a request arrives.                                                *)
(***************************************************************************)
POST ==
  /\ pc = "Idle"
  /\ \E b \in Bodies : body' = b
  /\ pc' = "Received"
  /\ trace' = <<"Received">>
  /\ UNCHANGED <<env, results, sources, prompt, rag, calls, caught, escaped,
                 response, status>>
  /\ UNCHANGED <<completion, others>>

\* a request that leaves the shared TOOLS array shortened behind it
DeliverDroppingTool ==
  /\ pc \in Terminal
  /\ pc' = "Idle"
  /\ body' = NoBody
  /\ results' = <<>>
  /\ sources' = <<>>
  /\ prompt' = <<>>
  /\ rag' = NoRagResponse
  /\ calls' = <<>>
  /\ caught' = <<>>
  /\ escaped' = FALSE
  /\ response' = NoResponse
  /\ status' = 0
  /\ trace' = <<>>
  /\ completion' = <<>>
  /\ catalog' = SubSeq(catalog, 1, Len(catalog) - 1)
  /\ UNCHANGED <<env, peer, chat>>

\* the response is sent; the locals of the request go out of scope and the
\* server is ready for the next request
Deliver ==
  /\ pc \in Terminal
  /\ pc' = "Idle"
  /\ body' = NoBody
  /\ results' = <<>>
  /\ sources' = <<>>
  /\ prompt' = <<>>
  /\ rag' = NoRagResponse
  /\ calls' = <<>>
  /\ caught' = <<>>
  /\ escaped' = FALSE
  /\ response' = NoResponse
  /\ status' = 0
  /\ trace' = <<>>
  /\ UNCHANGED env
  /\ completion' = <<>>
  /\ UNCHANGED others

\* POST without its catch block: the rejection of request.json() is not
\* handled and the request is never answered
RequestJsonNoCatch ==
  /\ pc = "Received"
  /\ IF body.json = "invalid"
     THEN /\ pc' = "Crashed"
          /\ UNCHANGED <<response, status, trace>>
     ELSE /\ pc' = "JsonRead"
          /\ UNCHANGED <<response, status, trace>>
  /\ UNCHANGED <<env, body, results, sources, prompt, rag, calls, caught, escaped>>
  /\ UNCHANGED <<completion, others>>

(***************************************************************************)
(* POST: await request.json().                                             *)
(***************************************************************************)
RequestJson ==
  /\ pc = "Received"
  /\ IF body.json = "invalid"
     THEN /\ RejectParse
          /\ trace' = Append(trace, "Rejected")
     ELSE /\ pc' = "JsonRead"
          /\ UNCHANGED <<response, status, trace>>
  /\ UNCHANGED <<env, body, results, sources, prompt, rag, calls, caught, escaped>>
  /\ UNCHANGED <<completion, others>>

(***************************************************************************)
(* handleMCPRequest, up to its first outbound call.                        *)
(***************************************************************************)
\* const { id, method, params } = request throws a TypeError
DestructureThrows(request) == request.json = "null"

\* ragQuery -> getRelevantContext -> queryVectors, up to index.query
StartRagQuery ==
  IF env.vector
  THEN /\ IssueCall("vector.query")
       /\ pc' = "AwaitQuery"
       /\ UNCHANGED <<caught, response, status>>
  ELSE /\ HandlerCatch(RagQueryCatch(QueryVectorsCatch(VectorCredentialsError)))
       /\ UNCHANGED calls

\* getVectorInfo, up to index.info
StartGetVectorInfo ==
  IF env.vector
  THEN /\ IssueCall("vector.info")
       /\ pc' = "AwaitInfo"
       /\ UNCHANGED <<caught, response, status>>
  ELSE /\ HandlerCatch(GetVectorInfoCatch(VectorCredentialsError))
       /\ UNCHANGED calls

Immediate(rpc) ==
  /\ Respond(rpc)
  /\ UNCHANGED <<calls, caught>>

ToolsCall(id, params) ==
  LET toolName == params.name
      toolArgs == params.arguments
      question == toolArgs.question
  IN IF toolName = AskDigitalTwin
     THEN IF ~Truthy(question)
          THEN Immediate(MissingQuestionError(id))
          ELSE StartRagQuery
     ELSE IF toolName = GetProfileInfo
          THEN StartGetVectorInfo
          ELSE Immediate(UnknownToolError(id, toolName))

handleMCPRequest ==
  /\ pc = "JsonRead"
  /\ IF DestructureThrows(body)
     THEN /\ escaped' = TRUE
          /\ RejectParse
          /\ trace' = Append(trace, "Rejected")
          /\ UNCHANGED <<calls, caught>>
     ELSE /\ escaped' = FALSE
          /\ CASE body.method = MethodInitialize ->
                    Immediate(RpcResult(body.id, InitializeResult))
               [] body.method = MethodToolsList ->
                    Immediate(RpcResult(body.id, ToolsListResult(catalog)))
               [] body.method = MethodToolsCall ->
                    ToolsCall(body.id, body.params)
               [] OTHER ->
                    Immediate(MethodNotFoundError(body.id, body.method))
          /\ trace' = trace \o (IF pc' \in Terminal
                                THEN <<"Parsed", "Dispatched", pc'>>
                                ELSE <<"Parsed", "Dispatched">>)
  /\ UNCHANGED <<env, body, results, sources, prompt, rag>>
  /\ UNCHANGED <<completion, others>>

(***************************************************************************)
(* ragQuery after index.query settled.                                     *)
(***************************************************************************)
\* generateResponse calling the model service without looking at the API key
StartGenerateResponseNoKeyCheck ==
  /\ calls' = calls \o <<"vector.query:ok", "groq.chat">>
  /\ pc' = "AwaitCompletion"
  /\ UNCHANGED <<caught, response, status>>

\* generateResponse, up to client.chat.completions.create
StartGenerateResponse ==
  IF env.groq
  THEN /\ calls' = calls \o <<"vector.query:ok", "groq.chat">>
       /\ pc' = "AwaitCompletion"
       /\ UNCHANGED <<caught, response, status>>
  ELSE /\ calls' = Append(calls, "vector.query:ok")
       /\ HandlerCatch(RagQueryCatch(GenerateResponseCatch(GroqKeyError)))

QueryResolves ==
  /\ pc = "AwaitQuery"
  /\ \E answer \in ServiceAnswers :
       LET srcs == GetRelevantContext(answer)
       IN /\ results' = answer
          /\ sources' = srcs
          /\ IF NoSources(srcs)
             THEN /\ rag' = RagResponse(NoInformationAnswer, <<>>)
                  /\ prompt' = prompt
                  /\ calls' = Append(calls, "vector.query:ok")
                  /\ caught' = caught
                  /\ Respond(RpcResult(body.id, AskResult(rag')))
             ELSE /\ prompt' = BuildPrompt(BuildContext(srcs),
                                           body.params.arguments.question)
                  /\ rag' = rag
                  /\ StartGenerateResponse
  /\ trace' = IF pc' \in Terminal THEN Append(trace, pc') ELSE trace
  /\ UNCHANGED <<env, body, escaped>>
  /\ UNCHANGED <<completion, others>>

\* a failed query is issued again instead of being reported
QueryRejectsRetry ==
  /\ pc = "AwaitQuery"
  /\ calls' = calls \o <<"vector.query:fail", "vector.query">>
  /\ UNCHANGED <<env, pc, body, results, sources, prompt, rag, caught, escaped,
                 response, status, trace>>
  /\ UNCHANGED <<completion, others>>

QueryRejects ==
  /\ pc = "AwaitQuery"
  /\ \E cause \in Causes :
       HandlerCatch(RagQueryCatch(QueryVectorsCatch(cause)))
  /\ CallOutcome("vector.query:fail")
  /\ trace' = Append(trace, "Responded")
  /\ UNCHANGED <<env, body, results, sources, prompt, rag, escaped>>
  /\ UNCHANGED <<completion, others>>

(***************************************************************************)
(* ragQuery after client.chat.completions.create settled.                  *)
(***************************************************************************)
CompletionResolves ==
  /\ pc = "AwaitCompletion"
  /\ \E content \in CompletionContents :
       /\ completion' = <<content>>
       /\ rag' = RagResponse(CompletionText(content), sources)
       /\ Respond(RpcResult(body.id, AskResult(rag')))
  /\ CallOutcome("groq.chat:ok")
  /\ trace' = Append(trace, "Responded")
  /\ UNCHANGED <<env, body, results, sources, prompt, caught, escaped>>
  /\ UNCHANGED others

\* a failed completion answered with the sources and a placeholder text
CompletionRejectsPartial ==
  /\ pc = "AwaitCompletion"
  /\ rag' = RagResponse(NoResponseGenerated, sources)
  /\ Respond(RpcResult(body.id, AskResult(rag')))
  /\ CallOutcome("groq.chat:fail")
  /\ trace' = Append(trace, "Responded")
  /\ UNCHANGED <<env, body, results, sources, prompt, caught, escaped>>
  /\ UNCHANGED <<completion, others>>

CompletionRejects ==
  /\ pc = "AwaitCompletion"
  /\ \E cause \in Causes :
       HandlerCatch(RagQueryCatch(GenerateResponseCatch(cause)))
  /\ CallOutcome("groq.chat:fail")
  /\ trace' = Append(trace, "Responded")
  /\ UNCHANGED <<env, body, results, sources, prompt, rag, escaped>>
  /\ UNCHANGED <<completion, others>>

(***************************************************************************)
(* getVectorInfo after index.info settled.                                 *)
(***************************************************************************)
InfoResolves ==
  /\ pc = "AwaitInfo"
  /\ \E info \in InfoValues :
       Respond(RpcResult(body.id, ProfileInfoResult(VectorInfo(info))))
  /\ CallOutcome("vector.info:ok")
  /\ trace' = Append(trace, "Responded")
  /\ UNCHANGED <<env, body, results, sources, prompt, rag, caught, escaped>>
  /\ UNCHANGED <<completion, others>>

\* a failed status query answered with a status of zeros
InfoRejectsAsEmptyStatus ==
  /\ pc = "AwaitInfo"
  /\ Respond(RpcResult(body.id, ProfileInfoResult(VectorInfo(
         [vectorCount |-> Undefined, dimension |-> Undefined]))))
  /\ CallOutcome("vector.info:fail")
  /\ trace' = Append(trace, "Responded")
  /\ UNCHANGED <<env, body, results, sources, prompt, rag, caught, escaped>>
  /\ UNCHANGED <<completion, others>>

InfoRejects ==
  /\ pc = "AwaitInfo"
  /\ \E cause \in Causes :
       HandlerCatch(GetVectorInfoCatch(cause))
  /\ CallOutcome("vector.info:fail")
  /\ trace' = Append(trace, "Responded")
  /\ UNCHANGED <<env, body, results, sources, prompt, rag, escaped>>
  /\ UNCHANGED <<completion, others>>

Next ==
  \/ POST
  \/ RequestJson
  \/ handleMCPRequest
  \/ QueryResolves
  \/ QueryRejects
  \/ CompletionResolves
  \/ CompletionRejects
  \/ InfoResolves
  \/ InfoRejects
  \/ Deliver

Spec == Init /\ [][Next]_vars

(***************************************************************************)
(* A second request served concurrently: a tools/list call.  Node runs one *)
(* continuation at a time, so its steps interleave with those of the       *)
(* request above at every await.                                           *)
(***************************************************************************)
PeerIds == {Num(2)}
request == <<env, pc, body, results, sources, prompt, rag, calls, caught, escaped,
             response, status, trace, completion>>

PeerPOST ==
  /\ peer.pc = "Idle"
  /\ \E i \in PeerIds : peer' = [peer EXCEPT !.pc = "Received", !.id = i]
  /\ UNCHANGED <<request, catalog, chat>>

PeerRequestJson ==
  /\ peer.pc = "Received"
  /\ peer' = [peer EXCEPT !.pc = "JsonRead"]
  /\ UNCHANGED <<request, catalog, chat>>

\* handleMCPRequest, case "tools/list"
PeerToolsList ==
  /\ peer.pc = "JsonRead"
  /\ peer' = [peer EXCEPT !.pc = "Responded",
                          !.response = RpcResult(peer.id, ToolsListResult(catalog)),
                          !.status = StatusOk]
  /\ UNCHANGED <<request, catalog, chat>>

PeerDeliver ==
  /\ peer.pc = "Responded"
  /\ peer' = NoPeer
  /\ UNCHANGED <<request, catalog, chat>>

NextConcurrent ==
  \/ Next
  \/ PeerPOST
  \/ PeerRequestJson
  \/ PeerToolsList
  \/ PeerDeliver

SpecConcurrent == Init /\ [][NextConcurrent]_vars

(***************************************************************************)
(* page.tsx: the chat page.  A discrete event (change, submit) is rendered *)
(* before the next event is dispatched; the updates made after the await   *)
(* are rendered by a later step.  The handlers read the input and          *)
(* isLoading of the render they were created in.                           *)
(***************************************************************************)
\* what the user can have typed
InputTexts == {<<>>, <<" ">>, <<"Hi">>, <<" ", "Hi", " ">>}

UserMessage(text) == [role |-> "user", content |-> text]
AssistantMessage(text) == [role |-> "assistant", content |-> text]

\* what chatWithDigitalTwin can resolve with: ragQuery(message).answer
ChatAnswers ==
  IF ~env.vector THEN {}
  ELSE {NoInformationAnswer.s} \cup
       (IF env.groq THEN {CompletionText(c).s : c \in CompletionContents} ELSE {})

\* what chatWithDigitalTwin can reject with
ChatErrors ==
  IF ~env.vector THEN {RagQueryCatch(QueryVectorsCatch(VectorCredentialsError))}
  ELSE {RagQueryCatch(QueryVectorsCatch(cause)) : cause \in Causes} \cup
       (IF env.groq
        THEN {RagQueryCatch(GenerateResponseCatch(cause)) : cause \in Causes}
        ELSE {RagQueryCatch(GenerateResponseCatch(GroqKeyError))}) \cup
       {ThrownValue}

\* `Error: ${error instanceof Error ? error.message : "Something went wrong"}`
ErrorText(error) == <<"Error: ">> \o ErrorMessageOr(error, "Something went wrong")

Remove(seq, i) == SubSeq(seq, 1, i - 1) \o SubSeq(seq, i + 1, Len(seq))

server == <<env, pc, body, results, sources, prompt, rag, calls, caught, escaped,
            response, status, trace, completion, catalog, peer>>

\* onChange={(e) => setInput(e.target.value)}; the input is disabled={isLoading}
onChange ==
  /\ ~rendered.isLoading
  /\ \E value \in InputTexts :
       /\ input' = value
       /\ rendered' = [input |-> value, isLoading |-> isLoading]
  /\ UNCHANGED <<messages, isLoading, pending, server>>

\* handleSubmit, up to the await
handleSubmit ==
  IF Trim(rendered.input) = <<>> \/ rendered.isLoading
  THEN UNCHANGED vars
  ELSE LET userMessage == Trim(rendered.input)
       IN /\ Len(messages) < 2 * MaxTurns
          /\ input' = <<>>
          /\ messages' = Append(messages, UserMessage(userMessage))
          /\ isLoading' = TRUE
          /\ pending' = Append(pending, userMessage)
          /\ rendered' = [input |-> <<>>, isLoading |-> TRUE]
          /\ UNCHANGED server

\* handleSubmit after the await resolved: try, then finally
ChatResolves ==
  /\ \E i \in 1..Len(pending) : \E answer \in ChatAnswers :
       /\ messages' = Append(messages, AssistantMessage(answer))
       /\ pending' = Remove(pending, i)
  /\ isLoading' = FALSE
  /\ UNCHANGED <<input, rendered, server>>

\* the catch block appends its message and the finally block is skipped
ChatRejectsNoFinally ==
  /\ \E i \in 1..Len(pending) : \E error \in ChatErrors :
       /\ messages' = Append(messages, AssistantMessage(ErrorText(error)))
       /\ pending' = Remove(pending, i)
  /\ UNCHANGED <<isLoading, input, rendered, server>>

\* handleSubmit after the await rejected: catch, then finally
ChatRejects ==
  /\ \E i \in 1..Len(pending) : \E error \in ChatErrors :
       /\ messages' = Append(messages, AssistantMessage(ErrorText(error)))
       /\ pending' = Remove(pending, i)
  /\ isLoading' = FALSE
  /\ UNCHANGED <<input, rendered, server>>

\* React renders the updates made after the await
Render ==
  /\ rendered # [input |-> input, isLoading |-> isLoading]
  /\ rendered' = [input |-> input, isLoading |-> isLoading]
  /\ UNCHANGED <<messages, input, isLoading, pending, server>>

NextChat ==
  \/ onChange
  \/ handleSubmit
  \/ ChatResolves
  \/ ChatRejects
  \/ Render

SpecChat == Init /\ [][NextChat]_vars

(***************************************************************************)
(* Vocabulary of the properties.                                           *)
(***************************************************************************)
InCalls(event) == \E i \in 1..Len(calls) : calls[i] = event
CountCalls(events) == Cardinality({i \in 1..Len(calls) : calls[i] \in events})
InTrace(state) == \E i \in 1..Len(trace) : trace[i] = state

IsNonEmptyString(v) == v.t = "string" /\ v.s # <<>>
IsToolsCall == body.json = "object" /\ body.method = MethodToolsCall
IsAskCall == IsToolsCall /\ body.params.name = AskDigitalTwin
AskedQuestion == body.params.arguments.question
HasResult == response.result.t = "object"
HasError == response.error.t = "object"

(***************************************************************************)
(* C1: every dispatched request is answered with its own id and with       *)
(* exactly one of result and error.                                        *)
(***************************************************************************)
C1_IdEchoedOneOfResultError ==
  (InTrace("Dispatched") /\ pc = "Responded") =>
    /\ response.id = body.id
    /\ response.jsonrpc = "2.0"
    /\ ~(HasResult <=> HasError)

\* an ask_digital_twin call with a non-empty question answered with a result,
\* and one answered with an error
C1_Witness ==
  /\ pc = "Responded"
  /\ IsAskCall /\ IsNonEmptyString(AskedQuestion)
  /\ body.id = Num(1) /\ response.id = Num(1)
  /\ HasError /\ ~HasResult
  /\ InCalls("groq.chat:fail")

(***************************************************************************)
(* C2: an ask_digital_twin call whose question is not a non-empty string   *)
(* is answered -32602 and makes no outbound call.                          *)
(***************************************************************************)
C2_NotANonEmptyStringRejected ==
  (IsAskCall /\ ~IsNonEmptyString(AskedQuestion) /\ InTrace("Dispatched")) =>
    /\ calls = <<>>
    /\ pc = "Responded"
    /\ HasError /\ response.error.code = CodeInvalidParams

(***************************************************************************)
(* C3: when the retriever returns no match, the generator is not invoked   *)
(* and ragQuery returns the fixed no-information answer with no sources.   *)
(***************************************************************************)
C3_EmptyRetrievalShortCircuits ==
  (InCalls("vector.query:ok") /\ sources = <<>>) =>
    /\ ~InCalls("groq.chat")
    /\ prompt = <<>>
    /\ caught = <<>>
    /\ rag = [t |-> "object", answer |-> NoInformationAnswer, sources |-> <<>>]
    /\ pc = "Responded" /\ HasResult
    /\ response.result.content = <<[type |-> "text", text |-> NoInformationAnswer]>>
    /\ response.result.metadata.sources = <<>>

\* the service answered with results and every one of them was filtered out
C3_Witness ==
  /\ InCalls("vector.query:ok")
  /\ Len(results) = 2
  /\ sources = <<>>
  /\ pc = "Responded"

C4_Entry(i) == sources[i].title.s \o <<": ">> \o sources[i].content.s
RECURSIVE C4_EntryStart(_, _)
C4_EntryStart(first, i) ==
  IF i = 1 THEN first
  ELSE C4_EntryStart(first, i - 1) + Len(C4_Entry(i - 1)) + 1
C4_EntryEnd(first, i) == C4_EntryStart(first, i) + Len(C4_Entry(i)) - 1
C4_QuestionPart == <<"\n\nQuestion: ">> \o TemplateText(AskedQuestion)

(***************************************************************************)
(* C4: when the retriever returns matches, the prompt handed to            *)
(* generateResponse holds one "<title>: <content>" entry per match, in     *)
(* retrieval order, separated by blank lines, then the literal question.   *)
(***************************************************************************)
C4_PromptHoldsEveryMatchInOrder ==
  (InCalls("vector.query:ok") /\ sources # <<>>) =>
    \E first \in 1..Len(prompt) :
      LET n == Len(sources)
          last == C4_EntryEnd(first, n)
      IN /\ last + Len(C4_QuestionPart) <= Len(prompt)
         /\ \A i \in 1..n :
              SubSeq(prompt, C4_EntryStart(first, i), C4_EntryEnd(first, i))
                = C4_Entry(i)
         /\ \A i \in 1..(n - 1) : prompt[C4_EntryEnd(first, i) + 1] = "\n\n"
         /\ SubSeq(prompt, last + 1, last + Len(C4_QuestionPart)) = C4_QuestionPart

\* two matches that differ, and the prompt was sent to the model service
C4_Witness ==
  /\ pc = "AwaitCompletion"
  /\ InCalls("groq.chat")
  /\ Len(sources) = 2
  /\ sources[1].title # sources[2].title

(***************************************************************************)
(* C5: on a successful ask_digital_twin call the RAGResponse carries the   *)
(* retriever's matches unchanged and in order, and the response metadata   *)
(* lists the title and score of each, in the same order.                   *)
(***************************************************************************)
C5_SourcesAndMetadataFollowRetrieval ==
  (pc = "Responded" /\ IsAskCall /\ HasResult) =>
    /\ rag.t = "object"
    /\ rag.sources = sources
    /\ response.result.metadata.t = "object"
    /\ Len(response.result.metadata.sources) = Len(sources)
    /\ \A i \in 1..Len(sources) :
         /\ response.result.metadata.sources[i].title = sources[i].title
         /\ response.result.metadata.sources[i].relevance = sources[i].score

\* an answer generated from two matches with different scores
C5_Witness ==
  /\ pc = "Responded" /\ IsAskCall /\ HasResult
  /\ InCalls("groq.chat:ok")
  /\ Len(sources) = 2
  /\ sources[1].score # sources[2].score

(***************************************************************************)
(* C6: a request makes at most one call to the vector service and at most  *)
(* one to the model service, nothing is issued after a failure, and the    *)
(* model service is called only after the query of the same request        *)
(* succeeded.                                                              *)
(***************************************************************************)
C6_AtMostOneCallEachInOrder ==
  /\ CountCalls({"vector.query", "vector.info"}) <= 1
  /\ CountCalls({"groq.chat"}) <= 1
  /\ \A i \in 1..Len(calls) :
       /\ calls[i] = "groq.chat" =>
            \E j \in 1..(i - 1) : calls[j] = "vector.query:ok"
       /\ calls[i] \in {"vector.query:fail", "vector.info:fail", "groq.chat:fail"}
            => i = Len(calls)

\* both services were called, the second call failed and was not repeated
C6_Witness ==
  /\ pc = "Responded"
  /\ calls = <<"vector.query", "vector.query:ok", "groq.chat", "groq.chat:fail">>

(***************************************************************************)
(* C7: a body that is not JSON is answered -32700 with id null; it is      *)
(* never parsed into a request or dispatched and makes no outbound call.   *)
(***************************************************************************)
C7_UnparseableBodyRejected ==
  body.json = "invalid" =>
    /\ pc \in {"Received", "Rejected"}
    /\ trace \in {<<"Received">>, <<"Received", "Rejected">>}
    /\ calls = <<>>
    /\ rag = NoRagResponse
    /\ pc = "Rejected" =>
         /\ HasError /\ ~HasResult
         /\ response.error.code = CodeParseError
         /\ response.id = Null

\* the body that is not JSON has been answered
C7_Witness ==
  /\ body.json = "invalid"
  /\ pc = "Rejected"
  /\ response.error.code = CodeParseError

C8_NotAnEnvelope ==
  \/ body.json \in {"null", "primitive"}
  \/ body.json = "object" /\ (body.method.t # "string" \/ body.jsonrpc # Str(<<"2.0">>))

(***************************************************************************)
(* C8: a payload that is not of the request shape (JSON that is not an     *)
(* object, or an object without a method or without jsonrpc "2.0") is      *)
(* answered -32700 with id null and is never dispatched.                   *)
(***************************************************************************)
C8_MalformedEnvelopeRejected ==
  (C8_NotAnEnvelope /\ pc \notin {"Idle", "Received", "JsonRead"}) =>
    /\ pc = "Rejected"
    /\ ~InTrace("Dispatched")
    /\ HasError /\ response.error.code = CodeParseError
    /\ response.id = Null

(***************************************************************************)
(* C9: the HTTP status is 200 for every handled outcome and 400 only when  *)
(* the body is not JSON; no body that is JSON gets 400.                    *)
(***************************************************************************)
C9_Status400OnlyForInvalidJson ==
  pc \in Terminal =>
    /\ status \in {StatusOk, StatusBadRequest}
    /\ status = StatusBadRequest <=> body.json = "invalid"

C10_NeedsVectorIndex ==
  \/ IsAskCall /\ Truthy(AskedQuestion)
  \/ IsToolsCall /\ body.params.name = GetProfileInfo

C10_RaisedInDispatch ==
  \/ InCalls("vector.query:fail")
  \/ InCalls("vector.info:fail")
  \/ InCalls("groq.chat:fail")
  \/ C10_NeedsVectorIndex /\ ~env.vector
  \/ InCalls("vector.query:ok") /\ sources # <<>> /\ ~env.groq

(***************************************************************************)
(* C10: an exception raised while a parsed request is dispatched (a failed *)
(* query, completion or status call, missing credentials) is caught and    *)
(* answered -32603 with the error's message and the request's id; none     *)
(* leaves handleMCPRequest.                                                *)
(***************************************************************************)
C10_DispatchFailuresBecomeInternalErrors ==
  (InTrace("Parsed") /\ pc \in Terminal) =>
    /\ ~escaped
    /\ pc = "Responded"
    /\ C10_RaisedInDispatch =>
         /\ Len(caught) = 1
         /\ caught[1].isError
         /\ HasError /\ ~HasResult
         /\ response.error.code = CodeInternalError
         /\ response.error.message = caught[1].message
         /\ response.error.message[1] \in
              {"RAG query failed: ", "Failed to get vector info: "}
         /\ response.id = body.id
         /\ status = StatusOk

\* the vector query of a request with an id failed
C10_Witness ==
  /\ pc = "Responded"
  /\ InCalls("vector.query:fail")
  /\ body.id = Str(<<"a">>)
  /\ response.error.code = CodeInternalError

C11_RetrievalFailed ==
  \/ InCalls("vector.query:fail")
  \/ IsAskCall /\ Truthy(AskedQuestion) /\ InTrace("Dispatched") /\ ~env.vector
C11_GenerationFailed ==
  \/ InCalls("groq.chat:fail")
  \/ InCalls("vector.query:ok") /\ sources # <<>> /\ ~env.groq

(***************************************************************************)
(* C11: ragQuery returns no partial answer.  When retrieval fails it       *)
(* throws a wrapping error and the generator is not invoked; when          *)
(* generation fails it throws a wrapping error and no RAGResponse, neither *)
(* text nor the retrieved sources, is returned.                            *)
(***************************************************************************)
C11_NoPartialAnswer ==
  /\ C11_RetrievalFailed =>
       /\ ~InCalls("groq.chat")
       /\ prompt = <<>>
       /\ rag = NoRagResponse
       /\ Len(caught) = 1 /\ caught[1].isError
       /\ SubSeq(caught[1].message, 1, 2)
            = <<"RAG query failed: ", "Failed to query vectors: ">>
       /\ ~HasResult
  /\ C11_GenerationFailed =>
       /\ rag = NoRagResponse
       /\ Len(caught) = 1 /\ caught[1].isError
       /\ SubSeq(caught[1].message, 1, 2)
            = <<"RAG query failed: ", "Failed to generate response: ">>
       /\ ~HasResult
       /\ response.result.metadata.sources = <<>>

\* matches were retrieved and the completion call failed
C11_Witness ==
  /\ InCalls("groq.chat:fail")
  /\ Len(sources) = 2
  /\ pc = "Responded"

C12_UnknownTool ==
  IsToolsCall /\ body.params.name \notin {AskDigitalTwin, GetProfileInfo}
C12_UnknownMethod ==
  body.method \notin {MethodInitialize, MethodToolsList, MethodToolsCall}

(***************************************************************************)
(* C12: a tools/call naming neither tool (or no tool) and a request with   *)
(* any other method are answered -32601 and make no outbound call.         *)
(***************************************************************************)
C12_UnknownNameIsMethodNotFound ==
  (InTrace("Dispatched") /\ (C12_UnknownTool \/ C12_UnknownMethod)) =>
    /\ pc = "Responded"
    /\ HasError /\ ~HasResult
    /\ response.error.code = CodeMethodNotFound
    /\ calls = <<>>
    /\ C12_UnknownTool =>
         response.error.message = <<"Unknown tool: ">> \o TemplateText(body.params.name)

\* a tools/call without a tool name has been answered
C12_Witness ==
  /\ pc = "Responded"
  /\ IsToolsCall /\ body.params.t = "object" /\ body.params.name = Undefined
  /\ response.error.code = CodeMethodNotFound

C13_TwoDescriptors(tools) ==
  /\ Len(tools) = 2
  /\ tools[1].name = "ask_digital_twin" /\ tools[1].required = <<"question">>
  /\ tools[2].name = "get_profile_info" /\ tools[2].required = <<>>

(***************************************************************************)
(* C13: tools/list always returns exactly the descriptors of               *)
(* ask_digital_twin and get_profile_info, whatever requests preceded it or *)
(* are in flight beside it; no step of any request changes the state that  *)
(* requests share (the TOOLS array and the environment).                   *)
(***************************************************************************)
C13_ToolsListUnaffectedByOtherRequests ==
  /\ [](/\ peer.pc = "Responded" =>
             /\ peer.response.id = peer.id
             /\ peer.response.result.t = "object"
             /\ peer.response.error.t = "undefined"
             /\ C13_TwoDescriptors(peer.response.result.tools)
        /\ (pc = "Responded" /\ body.json = "object" /\ body.method = MethodToolsList) =>
             /\ HasResult
             /\ C13_TwoDescriptors(response.result.tools))
  /\ [][catalog' = catalog /\ env' = env]_vars

\* a tools/list answered while an ask_digital_twin call awaits its completion
C13_Witness ==
  /\ peer.pc = "Responded"
  /\ pc = "AwaitCompletion"
  /\ Len(peer.response.result.tools) = 2

C14_IsInternalError(message) ==
  /\ pc = "Responded"
  /\ HasError /\ ~HasResult
  /\ response.error.code = CodeInternalError
  /\ response.error.message = message

(***************************************************************************)
(* C14, as claimed: with either credential absent no request gets a result *)
(* and no outbound call is made.                                           *)
(***************************************************************************)
C14_NothingServedWithoutCredentials ==
  (~env.vector \/ ~env.groq) => (~HasResult /\ calls = <<>>)

(***************************************************************************)
(* C14, amended: credentials are looked up per call.  Without the vector   *)
(* credentials no outbound call is made and every tools/call that needs    *)
(* the vector service is answered -32603 with the configuration message;   *)
(* without the model API key the model service is never called and an ask  *)
(* whose retrieval returned matches is answered -32603 with the            *)
(* configuration message.  initialize and tools/list are answered with a   *)
(* result whatever is configured.                                          *)
(***************************************************************************)
C14_MissingCredentialsFailPerCall ==
  /\ ~env.vector =>
       /\ calls = <<>>
       /\ (InTrace("Dispatched") /\ IsAskCall /\ Truthy(AskedQuestion)) =>
            C14_IsInternalError(<<"RAG query failed: ", "Failed to query vectors: ",
                                  "Upstash Vector credentials not configured">>)
       /\ (InTrace("Dispatched") /\ IsToolsCall /\ body.params.name = GetProfileInfo) =>
            C14_IsInternalError(<<"Failed to get vector info: ",
                                  "Upstash Vector credentials not configured">>)
  /\ ~env.groq =>
       /\ ~InCalls("groq.chat")
       /\ (InCalls("vector.query:ok") /\ sources # <<>>) =>
            C14_IsInternalError(<<"RAG query failed: ", "Failed to generate response: ",
                                  "GROQ_API_KEY not configured">>)
  /\ (InTrace("Dispatched") /\ body.method \in {MethodInitialize, MethodToolsList}) =>
       (pc = "Responded" /\ HasResult /\ ~HasError)

\* the vector query returned matches and the model API key is missing
C14_Witness ==
  /\ env.vector /\ ~env.groq
  /\ InCalls("vector.query:ok") /\ sources # <<>>
  /\ pc = "Responded"

(***************************************************************************)
(* One request under fair scheduling: the runtime runs every continuation  *)
(* that is ready, and each outbound call eventually resolves or rejects.   *)
(***************************************************************************)
SpecFair ==
  /\ Spec
  /\ WF_vars(RequestJson)
  /\ WF_vars(handleMCPRequest)
  /\ WF_vars(QueryResolves \/ QueryRejects)
  /\ WF_vars(CompletionResolves \/ CompletionRejects)
  /\ WF_vars(InfoResolves \/ InfoRejects)

IsPrefix(s, t) == Len(s) <= Len(t) /\ s = SubSeq(t, 1, Len(s))

C15_Served == <<"Received", "Parsed", "Dispatched", "Responded">>
C15_Refused == <<"Received", "Rejected">>

\* a step out of a terminal state is the delivery of the one response
C15_LeavesTerminalOnlyDelivered ==
  pc \in Terminal => (pc' = "Idle" /\ response' = NoResponse)

(***************************************************************************)
(* C15: every request goes Received -> Parsed -> Dispatched -> Responded   *)
(* or Received -> Rejected; it has a response exactly when it is in a      *)
(* terminal state, leaves a terminal state only by being delivered (never  *)
(* a second response), and, the outbound calls settling, every received    *)
(* request eventually reaches a terminal state.                            *)
(***************************************************************************)
C15_EveryRequestAnsweredOnce ==
  /\ [](/\ IsPrefix(trace, C15_Served) \/ IsPrefix(trace, C15_Refused)
        /\ (pc = "Responded") <=> (trace = C15_Served)
        /\ (pc = "Rejected") <=> (trace = C15_Refused)
        /\ (pc \in Terminal) <=> (response # NoResponse))
  /\ [][C15_LeavesTerminalOnlyDelivered]_vars
  /\ (pc = "Received") ~> (pc \in Terminal)

\* a request answered after both of its outbound calls settled
C15_Witness ==
  /\ trace = C15_Served
  /\ InCalls("vector.query:ok") /\ InCalls("groq.chat:ok")
  /\ response # NoResponse

\* the service's results that carry metadata with non-empty content
C16_Usable(i) ==
  /\ results[i].metadata.t = "object"
  /\ IsNonEmptyString(results[i].metadata.content)
C16_UsableIndexes == {i \in 1..Len(results) : C16_Usable(i)}
\* position in the returned sequence of the i-th result of the service
C16_Position(i) == Cardinality({j \in C16_UsableIndexes : j <= i})

(***************************************************************************)
(* C16: after a successful vector query the returned matches are exactly   *)
(* the service's results with metadata and non-empty content, in the       *)
(* service's order, each with the service's score and content; results     *)
(* without metadata or with empty or absent content are not among them,    *)
(* and there are never more than topK matches.                             *)
(***************************************************************************)
C16_MatchesAreTheUsableResultsInOrder ==
  InCalls("vector.query:ok") =>
    /\ Len(sources) = Cardinality(C16_UsableIndexes)
    /\ Len(sources) <= TopK
    /\ \A i \in C16_UsableIndexes :
         /\ sources[C16_Position(i)].score = results[i].score
         /\ sources[C16_Position(i)].content = results[i].metadata.content

\* a result was dropped and the lower-scored one after it was kept
C16_Witness ==
  /\ InCalls("vector.query:ok")
  /\ Len(results) = 2 /\ Len(sources) = 1
  /\ ~C16_Usable(1) /\ C16_Usable(2)
  /\ results[1].metadata.t = "object"
  /\ results[1].score > results[2].score

\* a result of the service with content but without a title
C17_Untitled(i) == C16_Usable(i) /\ ~IsNonEmptyString(results[i].metadata.title)
\* the retrieval of the request failed: an error wrapping the cause, no list
C17_RetrievalFailed ==
  /\ sources = <<>>
  /\ caught # <<>>
  /\ SubSeq(caught[1].message, 1, 2) = <<"RAG query failed: ", "Failed to query vectors: ">>

(***************************************************************************)
(* C17, as claimed: a payload with an entry that has content but no title  *)
(* makes the retrieval fail without a match list, and every returned match *)
(* carries the title the service supplied.                                 *)
(***************************************************************************)
C17_MalformedEntryFailsRetrieval ==
  InCalls("vector.query:ok") =>
    /\ (\E i \in 1..Len(results) : C17_Untitled(i)) => C17_RetrievalFailed
    /\ \A i \in C16_UsableIndexes :
         sources # <<>> => sources[C16_Position(i)].title = results[i].metadata.title

(***************************************************************************)
(* C17, amended: the retrieval fails as a whole, with an error wrapping    *)
(* the cause and no match list, exactly when the query call fails or the   *)
(* vector credentials are missing.  An entry with content but no title is  *)
(* no failure: it is returned under the title "Information".  Every        *)
(* returned match carries the content and the score of the service, and    *)
(* the service's title when that is a non-empty string.                    *)
(***************************************************************************)
C17_RetrievalFailsOnlyWhenCallFails ==
  /\ (\/ InCalls("vector.query:fail")
      \/ (~env.vector /\ InTrace("Dispatched") /\ IsAskCall /\ Truthy(AskedQuestion)))
       => (C17_RetrievalFailed /\ ~InCalls("vector.query:ok") /\ HasError)
  /\ InCalls("vector.query:ok") =>
       /\ ~C17_RetrievalFailed
       /\ Len(sources) = Cardinality(C16_UsableIndexes)
       /\ \A i \in C16_UsableIndexes :
            LET match == sources[C16_Position(i)]
            IN /\ match.content = results[i].metadata.content
               /\ match.score = results[i].score
               /\ match.title = IF C17_Untitled(i) THEN Str(<<"Information">>)
                                ELSE results[i].metadata.title

\* an entry without a title was returned together with a titled one
C17_Witness ==
  /\ InCalls("vector.query:ok")
  /\ Len(sources) = 2
  /\ C17_Untitled(1) /\ ~C17_Untitled(2)
  /\ sources[1].title = Str(<<"Information">>)

\* the completion carries text other than whitespace
C18_HasText(content) ==
  /\ content.t = "string"
  /\ \E k \in 1..Len(content.s) : ~IsWhitespace(content.s[k])
\* text is whole with whitespace stripped from both of its ends, and nothing else
C18_IsTrimmed(text, whole) ==
  /\ text # <<>>
  /\ ~IsWhitespace(text[1]) /\ ~IsWhitespace(text[Len(text)])
  /\ \E i \in 1..Len(whole) : \E j \in i..Len(whole) :
       /\ text = SubSeq(whole, i, j)
       /\ \A k \in 1..Len(whole) : (k < i \/ k > j) => IsWhitespace(whole[k])

(***************************************************************************)
(* C18: when the model service returns, the answer is the completion text  *)
(* without its surrounding whitespace, or the sentinel "No response        *)
(* generated" when there is no text (no choice, absent content, content    *)
(* empty after trimming); it is never empty, and the ask_digital_twin      *)
(* response is a result, not an error, with that text and with the         *)
(* retrieved matches as its sources.                                       *)
(***************************************************************************)
C18_AnswerIsTrimmedTextOrSentinel ==
  InCalls("groq.chat:ok") =>
    LET content == completion[1]
        answer == rag.answer
    IN /\ IsNonEmptyString(answer)
       /\ C18_HasText(content) => C18_IsTrimmed(answer.s, content.s)
       /\ ~C18_HasText(content) => answer = Str(<<"No response generated">>)
       /\ pc = "Responded" /\ HasResult /\ ~HasError
       /\ response.result.content = <<[type |-> "text", text |-> answer]>>
       /\ rag.sources = sources /\ sources # <<>>
       /\ Len(response.result.metadata.sources) = Len(sources)
       /\ \A i \in 1..Len(sources) :
            /\ response.result.metadata.sources[i].title = sources[i].title
            /\ response.result.metadata.sources[i].relevance = sources[i].score

\* the service returned whitespace only and the request was answered with the sentinel
C18_Witness ==
  /\ InCalls("groq.chat:ok")
  /\ completion = <<Str(<<" ">>)>>
  /\ HasResult
  /\ response.result.content[1].text = Str(<<"No response generated">>)
  /\ Len(response.result.metadata.sources) = 2

\* the request being handled is a tools/call naming get_profile_info
C19_IsProfileCall ==
  InTrace("Dispatched") /\ IsToolsCall /\ body.params.name = GetProfileInfo
\* no outbound call other than the status query and its outcome
C19_OnlyStatusCalls ==
  /\ \A i \in 1..Len(calls) : calls[i] \in {"vector.info", "vector.info:ok", "vector.info:fail"}
  /\ CountCalls({"vector.info"}) <= 1
\* a result with one text block reporting vector count and dimension
C19_IsStatusResult ==
  /\ pc = "Responded" /\ HasResult /\ ~HasError
  /\ Len(response.result.content) = 1
  /\ response.result.content[1].type = "text"
  /\ LET text == response.result.content[1].text.s
     IN /\ Len(text) = 4
        /\ text[1] = "Digital Twin Profile Status:\n- Vector Count: "
        /\ text[3] = "\n- Dimension: "
\* an RPC-level internal error and no result
C19_IsInternalError ==
  /\ pc = "Responded" /\ HasError /\ ~HasResult
  /\ response.error.code = -32603

(***************************************************************************)
(* C19, as claimed: an answered get_profile_info call has made exactly one *)
(* status query, no other outbound call, and is a status result when the   *)
(* query succeeded and an error -32603 when it failed.                     *)
(***************************************************************************)
C19_ExactlyOneStatusQuery ==
  (C19_IsProfileCall /\ pc = "Responded") =>
    /\ C19_OnlyStatusCalls
    /\ CountCalls({"vector.info"}) = 1
    /\ InCalls("vector.info:ok") => C19_IsStatusResult
    /\ InCalls("vector.info:fail") => C19_IsInternalError

(***************************************************************************)
(* C19, amended: a get_profile_info call makes exactly one status query    *)
(* when the vector credentials are configured and none when they are       *)
(* missing, and never a similarity query or a generation call, whatever    *)
(* its arguments.  A successful status query is answered with a result of  *)
(* one text block reporting vector count and dimension; a failed one, or   *)
(* missing credentials, with error -32603 and no result.                   *)
(***************************************************************************)
C19_ProfileInfoQueriesStatusOnce ==
  C19_IsProfileCall =>
    /\ C19_OnlyStatusCalls
    /\ pc = "Responded" => CountCalls({"vector.info"}) = (IF env.vector THEN 1 ELSE 0)
    /\ InCalls("vector.info:ok") => C19_IsStatusResult
    /\ (InCalls("vector.info:fail") \/ ~env.vector) => C19_IsInternalError

\* the status query failed and the call, made with arguments, got an error
C19_Witness ==
  /\ C19_IsProfileCall
  /\ body.params.arguments.t = "object"
  /\ calls = <<"vector.info", "vector.info:fail">>
  /\ C19_IsInternalError

\* roles alternate, the first message being the user's
C20_Alternates ==
  \A i \in 1..Len(messages) :
    messages[i].role = (IF i % 2 = 1 THEN "user" ELSE "assistant")
\* the last message is a user message that has no answer yet
C20_Unanswered == messages # <<>> /\ messages[Len(messages)].role = "user"
\* a step that puts a user message on the list starts from an idle page with
\* non-blank input; a step that ends a request appends one assistant message
\* and resets isLoading
C20_Step ==
  /\ (isLoading \/ Trim(input) = <<>>) =>
       (Len(pending') <= Len(pending) /\ (pending' = pending => messages' = messages))
  /\ Len(pending') > Len(pending) =>
       /\ messages' = Append(messages, UserMessage(Trim(input)))
       /\ isLoading'
  /\ Len(pending') < Len(pending) =>
       /\ Len(messages') = Len(messages) + 1
       /\ SubSeq(messages', 1, Len(messages)) = messages
       /\ messages'[Len(messages')].role = "assistant"
       /\ ~isLoading'

(***************************************************************************)
(* C20: in the chat page at most one chatWithDigitalTwin request is in     *)
(* flight; a submit while isLoading or with blank input changes nothing;   *)
(* the messages alternate user, assistant from a user message on; a user   *)
(* message is unanswered exactly while isLoading; and each request,        *)
(* resolved or rejected, appends exactly one assistant message and resets  *)
(* isLoading.                                                              *)
(***************************************************************************)
C20_OneRequestInFlightMessagesAlternate ==
  /\ [](/\ Len(pending) <= 1
        /\ C20_Alternates
        /\ isLoading <=> C20_Unanswered
        /\ isLoading <=> (pending # <<>>))
  /\ [][C20_Step]_vars

\* a second question is in flight after the first one was answered with an
\* error
C20_Witness ==
  /\ Len(messages) = 3
  /\ messages[2].content[1] = "Error: "
  /\ isLoading /\ Len(pending) = 1
  /\ rendered.isLoading

====
